---- MODULE Spec2Model ----
(***************************************************************************)
(* Model of the streaming chat session of engine.py: call_llm (request     *)
(* construction and the newline-delimited JSON stream parser) and          *)
(* ChatSession (ask_stream, ask and the conversation history).             *)
(*                                                                         *)
(* Text is a sequence of one-character strings, so that "".join is         *)
(* concatenation.  A JSON value is a record [t, v]: t is its type tag and   *)
(* v its text.                                                             *)
(***************************************************************************)
EXTENDS Integers, Sequences, FiniteSets, TLC

\* ------------------------------------------------------------------ bounds
MaxLines == 3       \* longest response body, in lines (stream specification)
MaxCalls == 2       \* ask_stream and ask calls per session
MaxAgain == 1
MaxTurns == 3
MaxQueue == 2       \* pulls on a sequence that is already over

\* ------------------------------------------------------------ JSON values
Absent  == [t |-> "absent", v |-> <<>>]
Null    == [t |-> "null", v |-> <<>>]
Str(s)  == [t |-> "str", v |-> s]
Num(s)  == [t |-> "num", v |-> s]
JTrue   == [t |-> "bool", v |-> <<"1">>]
JFalse  == [t |-> "bool", v |-> <<"0">>]

\* Python truth value of a decoded JSON value (dict.get gives None when absent)
Truthy(x) ==
    CASE x.t = "absent" -> FALSE
      [] x.t = "null"   -> FALSE
      [] x.t = "str"    -> x.v # <<>>
      [] x.t = "num"    -> x.v # <<"0">>
      [] x.t = "bool"   -> x.v = <<"1">>

IsStr(x) == x.t = "str"

Hel == <<"H", "e", "l">>
Lo  == <<"l", "o">>

SYSTEM_PROMPT ==
    <<"R","e","s","p","o","n","d"," ","i","n"," ","a"," ",
      "s","i","n","g","l","e"," ","s","e","n","t","e","n","c","e",".">>

Prompts == { <<"h", "i">>, <<" ">> }

\* ------------------------------------------------------- response lines
\* One line of the response body as iter_lines hands it over:
\*   json    "blank" (empty line), "invalid" (json.loads raises),
\*           "nondict" (a JSON number, string, list or null), "object"
\*   error, done      the object's fields
\*   message "absent" (missing or falsy), "other" (truthy, not an object),
\*           "dict"; content is the message object's content field
Line(j, e, d, m, c) ==
    [json |-> j, error |-> e, done |-> d, message |-> m, content |-> c]

BlankLine   == Line("blank", Absent, Absent, "absent", Absent)
InvalidLine == Line("invalid", Absent, Absent, "absent", Absent)
NonDictLine == Line("nondict", Absent, Absent, "absent", Absent)
ErrorLine   == Line("object", Str(<<"n","o">>), Absent, "absent", Absent)
EmptyErrorLine == Line("object", Str(<<>>), JFalse, "dict", Str(Hel))
DoneLine    == Line("object", Absent, JTrue, "dict", Str(Lo))
DeltaHel    == Line("object", Absent, JFalse, "dict", Str(Hel))
DeltaLo     == Line("object", Absent, JFalse, "dict", Str(Lo))
DeltaEmpty  == Line("object", Absent, JFalse, "dict", Str(<<>>))
NoMessage   == Line("object", Absent, JFalse, "absent", Absent)
MessageStr  == Line("object", Absent, JFalse, "other", Absent)
ContentNum  == Line("object", Absent, JFalse, "dict", Num(<<"5">>))

Lines == { BlankLine, InvalidLine, NonDictLine, ErrorLine, EmptyErrorLine,
           DoneLine, DeltaHel, DeltaLo, DeltaEmpty, NoMessage, MessageStr,
           ContentNum }

SeqsUpTo(S, n) == UNION { [1..k -> S] : k \in 0..n }

\* A streaming response: the outcome of requests.post, the status code, the
\* lines of the body, and how the body ends ("eof": the connection closes,
\* "fail": iter_lines raises a network error after the last line).
Response(c, s, ls, t) == [connect |-> c, status |-> s, lines |-> ls, tail |-> t]
Refused   == Response("refused", 0, <<>>, "eof")
HttpError == Response("ok", 500, <<>>, "eof")
Ok(ls, t) == Response("ok", 200, ls, t)
NoResponse == Response("none", 0, <<>>, "eof")

\* Every response with a body of at most MaxLines lines.
StreamResponses ==
    { Refused, HttpError }
    \cup { Ok(ls, t) : ls \in SeqsUpTo(Lines, MaxLines), t \in {"eof", "fail"} }

\* The responses a session with several exchanges is run against.
SessionResponses ==
    { Refused, HttpError,
      Ok(<<DeltaHel, DeltaLo>>, "eof"),
      Ok(<<DeltaHel, ErrorLine>>, "eof"),
      Ok(<<DeltaHel>>, "fail"),
      Ok(<<ContentNum>>, "eof"),
      Ok(<<DoneLine>>, "eof") }

\* A non-streaming response: the body is one JSON document.
Body(j, m, c) == [json |-> j, message |-> m, content |-> c]
AskResponse(c, s, b) == [connect |-> c, status |-> s, body |-> b]
NoAskResponse == AskResponse("none", 0, Body("invalid", "absent", Absent))
AskResponses ==
    { AskResponse("refused", 0, Body("invalid", "absent", Absent)),
      AskResponse("ok", 500, Body("invalid", "absent", Absent)),
      AskResponse("ok", 200, Body("invalid", "absent", Absent)),
      AskResponse("ok", 200, Body("nondict", "absent", Absent)),
      AskResponse("ok", 200, Body("object", "other", Absent)),
      AskResponse("ok", 200, Body("object", "absent", Absent)),
      AskResponse("ok", 200, Body("object", "dict", Absent)),
      AskResponse("ok", 200, Body("object", "dict", Null)),
      AskResponse("ok", 200, Body("object", "dict", Num(<<"5">>))),
      AskResponse("ok", 200, Body("object", "dict", Str(Hel \o Lo))),
      AskResponse("ok", 201, Body("object", "dict", Str(Hel \o Lo))) }

\* ------------------------------------------------------------------ state
VARIABLES
    systemPrompt,   \* ChatSession.system_prompt
    history,        \* ChatSession.history
    gens,           \* the generators returned by ask_stream, in call order
    asked,          \* the last ask call; n calls so far, ok of them returned
    reentered,      \* an exchange was started while another one was streaming
    chat            \* the chat loop of chat.py: where it is and what it holds

vars == <<systemPrompt, history, gens, asked, reentered, chat>>

Turn(r, c) == [role |-> r, content |-> c]

\* ------------------------------------------------------------ call_llm
\* A role that is not a str (None when the key is missing) is written as
\* one of these names; no text role of the inputs is spelled so.
NonTextRoles == {"<None>"}

\* Variant of messages: the history is not sent.
messages_without_history(system_prompt, hist, prompt) ==
    (IF system_prompt # <<>> THEN <<Turn("system", Str(system_prompt))>> ELSE <<>>)
    \o <<Turn("user", Str(prompt))>>

\* Variant of messages: the role of an entry is not looked at.
messages_keeps_roles(system_prompt, hist, prompt) ==
    LET keep(m) == IsStr(m.content)
        kept == SelectSeq(hist, keep)
    IN  (IF system_prompt # <<>> THEN <<Turn("system", Str(system_prompt))>> ELSE <<>>)
        \o kept
        \o <<Turn("user", Str(prompt))>>

\* The message list of the request.
messages(system_prompt, hist, prompt) ==
    LET keep(m) == /\ m.role \notin NonTextRoles /\ IsStr(m.content)
                   /\ m.role \in {"user", "assistant", "system"}
        kept == SelectSeq(hist, keep)
    IN  (IF system_prompt # <<>> THEN <<Turn("system", Str(system_prompt))>> ELSE <<>>)
        \o kept
        \o <<Turn("user", Str(prompt))>>

\* Variant of chunk: a line with an error field is not treated specially.
chunk_ignores_error(l) ==
    IF l.json = "blank" THEN [kind |-> "continue", val |-> Absent]
    ELSE IF l.json = "invalid" THEN [kind |-> "continue", val |-> Absent]
    ELSE IF l.json # "object" THEN [kind |-> "AttributeError", val |-> Absent]
    ELSE IF l.done = JTrue THEN [kind |-> "break", val |-> Absent]
    ELSE IF l.message = "other" THEN [kind |-> "AttributeError", val |-> Absent]
    ELSE LET content == IF l.message = "dict" THEN l.content ELSE Absent
         IN  IF Truthy(content) THEN [kind |-> "yield", val |-> content]
             ELSE [kind |-> "continue", val |-> Absent]

\* Variant of chunk: a line that is not valid JSON ends the stream.
chunk_invalid_breaks(l) ==
    IF l.json = "blank" THEN [kind |-> "continue", val |-> Absent]
    ELSE IF l.json = "invalid" THEN [kind |-> "break", val |-> Absent]
    ELSE IF l.json = "object" /\ Truthy(l.error)
        THEN [kind |-> "RuntimeError", val |-> Absent]
    ELSE IF l.json # "object" THEN [kind |-> "AttributeError", val |-> Absent]
    ELSE IF l.done = JTrue THEN [kind |-> "break", val |-> Absent]
    ELSE IF l.message = "other" THEN [kind |-> "AttributeError", val |-> Absent]
    ELSE LET content == IF l.message = "dict" THEN l.content ELSE Absent
         IN  IF Truthy(content) THEN [kind |-> "yield", val |-> content]
             ELSE [kind |-> "continue", val |-> Absent]

\* One iteration of the loop over the lines of the body.
chunk(l) ==
    IF l.json = "blank" THEN [kind |-> "continue", val |-> Absent]
    ELSE IF l.json = "invalid" THEN [kind |-> "continue", val |-> Absent]
    ELSE IF l.json = "object" /\ Truthy(l.error)
        THEN [kind |-> "RuntimeError", val |-> Absent]
    ELSE IF l.json # "object" THEN [kind |-> "AttributeError", val |-> Absent]
    ELSE IF l.done = JTrue THEN [kind |-> "break", val |-> Absent]
    ELSE IF l.message = "other" THEN [kind |-> "AttributeError", val |-> Absent]
    ELSE LET content == IF l.message = "dict" THEN l.content ELSE Absent
         IN  IF Truthy(content) THEN [kind |-> "yield", val |-> content]
             ELSE [kind |-> "continue", val |-> Absent]

\* Resume the generator of call_llm before line i of the body: run to the
\* next yield, to the end of the body, or to an exception.  pos is the
\* number of lines read.
RECURSIVE generator(_, _)
generator(resp, i) ==
    IF i > Len(resp.lines)
    THEN IF resp.tail = "fail"
         THEN [kind |-> "ConnectionError", val |-> Absent, pos |-> Len(resp.lines)]
         ELSE [kind |-> "return", val |-> Absent, pos |-> Len(resp.lines)]
    ELSE LET r == chunk(resp.lines[i])
         IN  CASE r.kind = "continue" -> generator(resp, i + 1)
               [] r.kind = "break" -> [kind |-> "return", val |-> Absent, pos |-> i]
               [] OTHER -> [kind |-> r.kind, val |-> r.val, pos |-> i]

\* Variant of start: the status of the response is not looked at.
start_ignores_status(resp) ==
    IF resp.connect = "refused"
    THEN [kind |-> "ConnectionError", val |-> Absent, pos |-> 0]
    ELSE generator(resp, 1)

\* First resumption: requests.post and the status check come first.
start(resp) ==
    IF resp.connect = "refused"
    THEN [kind |-> "ConnectionError", val |-> Absent, pos |-> 0]
    ELSE IF resp.status # 200
    THEN [kind |-> "RuntimeError", val |-> Absent, pos |-> 0]
    ELSE generator(resp, 1)

\* Variant of join: the fragments are concatenated last first.
RECURSIVE join_reversed(_)
join_reversed(chunks) ==
    IF chunks = <<>> THEN <<>> ELSE join_reversed(Tail(chunks)) \o Head(chunks).v

\* "".join(chunks)
RECURSIVE join(_)
join(chunks) ==
    IF chunks = <<>> THEN <<>> ELSE Head(chunks).v \o join(Tail(chunks))

joinable(chunks) == \A i \in 1..Len(chunks) : IsStr(chunks[i])

\* -------------------------------------------------------- ChatSession
\* The chat loop before its first input: waiting in get_next_user_text with
\* capture enabled, nothing recognized, the default microphone (None, -1).
chat0 ==
    [pc |-> "input", gen |-> 0, collected |-> <<>>, forwarded |-> <<>>,
     printed |-> <<>>, exc |-> "none",
     user |-> <<>>, last |-> "none", mic |-> -1,
     tts |-> TRUE, speaks |-> 0, said |-> <<>>, spoke |-> "none",
     capture |-> TRUE, queue |-> <<>>, cb |-> "idle", late |-> FALSE]

Init ==
    /\ systemPrompt \in { SYSTEM_PROMPT, <<>> }
    /\ history = <<>>
    /\ gens = <<>>
    /\ asked = [n |-> 0, ok |-> 0, prompt |-> <<>>, request |-> <<>>,
                resp |-> NoAskResponse, exc |-> "none", reply |-> Absent]
    /\ reentered = FALSE
    /\ chat = chat0

\* Variant of AskStreamUpTo: the message list is built when ask_stream is
\* called.
AskStreamUpTo_eager(prompt, n) ==
    /\ Len(gens) + asked.n < n
    /\ gens' = Append(gens,
                 [pc |-> "created", prompt |-> prompt,
                  request |-> messages(systemPrompt, history, prompt),
                  resp |-> NoResponse, pos |-> 0, chunks |-> <<>>,
                  delivered |-> <<>>, exc |-> "none", conn |-> "none",
                  again |-> 0])
    /\ UNCHANGED <<systemPrompt, history, asked, reentered>>

\* ask_stream(prompt): returns a generator that has not started running.
\* (AskStreamUpTo and PullFrom say nothing about chat: the caller does.)
AskStreamUpTo(prompt, n) ==
    /\ Len(gens) + asked.n < n
    /\ gens' = Append(gens,
                 [pc |-> "created", prompt |-> prompt, request |-> <<>>,
                  resp |-> NoResponse, pos |-> 0, chunks |-> <<>>,
                  delivered |-> <<>>, exc |-> "none", conn |-> "none",
                  again |-> 0])
    /\ UNCHANGED <<systemPrompt, history, asked, reentered>>

AskStream(prompt) == AskStreamUpTo(prompt, MaxCalls) /\ UNCHANGED chat

\* The history after the two appends that follow the loop; the second one
\* evaluates "".join(chunks) first.
commit(hist, prompt, chunks) ==
    LET withUser == Append(hist, Turn("user", Str(prompt)))
    IN  IF joinable(chunks)
        THEN Append(withUser, Turn("assistant", Str(join(chunks))))
        ELSE withUser

\* The body of _gen from a resumption to its next suspension or its end,
\* given what the generator of call_llm did.
resumed(G, r) ==
    CASE r.kind = "yield" ->
            [G EXCEPT !.pc = "suspended", !.pos = r.pos, !.conn = "open",
                      !.chunks = Append(G.chunks, r.val),
                      !.delivered = Append(G.delivered, r.val)]
      [] r.kind = "return" ->
            [G EXCEPT !.pc = IF joinable(G.chunks) THEN "done" ELSE "raised",
                      !.exc = IF joinable(G.chunks) THEN "none" ELSE "TypeError",
                      !.pos = r.pos, !.conn = "closed"]
      [] OTHER ->
            [G EXCEPT !.pc = "raised", !.exc = r.kind, !.pos = r.pos,
                      !.conn = IF G.resp.connect = "refused" THEN "none" ELSE "closed"]

\* Variant of appended: the user turn is appended although the loop was
\* left by an exception.
appended_orphan(hist, G, r) ==
    IF r.kind = "return" THEN commit(hist, G.prompt, G.chunks)
    ELSE IF r.kind = "yield" THEN hist
    ELSE Append(hist, Turn("user", Str(G.prompt)))

\* Variant of appended: an exchange left by an exception persists the user
\* turn and what was received of the reply.
appended_partial(hist, G, r) ==
    IF r.kind = "yield" THEN hist
    ELSE IF r.kind = "return" THEN commit(hist, G.prompt, G.chunks)
    ELSE hist \o <<Turn("user", Str(G.prompt)), Turn("assistant", Str(<<>>))>>

\* The history after that resumption: the two appends run only when the
\* loop over the generator of call_llm ends.
appended(hist, G, r) ==
    IF r.kind = "return" THEN commit(hist, G.prompt, G.chunks) ELSE hist

\* The exchanges that are streaming: started and neither finished nor closed.
streaming == { h \in 1..Len(gens) : gens[h].pc = "suspended" }

\* next() on generator g, the transport answering a first pull with a
\* response of R.
PullFrom(g, R) ==
    /\ g \in 1..Len(gens)
    /\ \/ /\ gens[g].pc = "created"
          /\ \E resp \in R :
                LET G == [gens[g] EXCEPT
                            !.request = messages(systemPrompt, history, gens[g].prompt),
                            !.resp = resp]
                    r == start(resp)
                IN  /\ gens' = [gens EXCEPT ![g] = resumed(G, r)]
                    /\ history' = appended(history, G, r)
          /\ reentered' = (reentered \/ streaming # {})
       \/ /\ gens[g].pc = "suspended"
          /\ LET G == gens[g]
                 r == generator(G.resp, G.pos + 1)
             IN  /\ gens' = [gens EXCEPT ![g] = resumed(G, r)]
                 /\ history' = appended(history, G, r)
          /\ UNCHANGED reentered
    /\ UNCHANGED <<systemPrompt, asked>>

Pull(g) == PullFrom(g, SessionResponses) /\ UNCHANGED chat

\* Variant of Close: closing a suspended generator commits what was
\* delivered so far.
Close_commits(g) ==
    /\ g \in 1..Len(gens)
    /\ gens[g].pc \in {"created", "suspended"}
    /\ gens' = [gens EXCEPT ![g].pc = "closed",
                            ![g].conn = IF @ = "open" THEN "closed" ELSE @]
    /\ history' = IF gens[g].pc = "suspended"
                  THEN commit(history, gens[g].prompt, gens[g].chunks)
                  ELSE history
    /\ UNCHANGED <<systemPrompt, asked, reentered, chat>>

\* Variant of Close: the generator of call_llm is not finalised, so the
\* with block is never left.
Close_leaks(g) ==
    /\ g \in 1..Len(gens)
    /\ gens[g].pc \in {"created", "suspended"}
    /\ gens' = [gens EXCEPT ![g].pc = "closed"]
    /\ UNCHANGED <<systemPrompt, history, asked, reentered, chat>>

\* The consumer stops iterating: the generator is closed or discarded.
\* GeneratorExit is raised at the yield; the generator of call_llm is
\* finalised with it, which leaves the with block.
Close(g) ==
    /\ g \in 1..Len(gens)
    /\ gens[g].pc \in {"created", "suspended"}
    /\ gens' = [gens EXCEPT ![g].pc = "closed",
                            ![g].conn = IF @ = "open" THEN "closed" ELSE @]
    /\ UNCHANGED <<systemPrompt, history, asked, reentered, chat>>

\* Variant of PullAgain: the body of _gen runs once more and commits again.
PullAgain_restarts(g) ==
    /\ g \in 1..Len(gens)
    /\ gens[g].pc \in {"done", "raised", "closed"}
    /\ gens[g].again < MaxAgain
    /\ gens' = [gens EXCEPT ![g].again = @ + 1]
    /\ history' = commit(history, gens[g].prompt, gens[g].chunks)
    /\ UNCHANGED <<systemPrompt, asked, reentered, chat>>

\* next() on a generator that has returned, raised or been closed: its
\* frame is gone, StopIteration is raised and no code of _gen runs.  again
\* counts these pulls.
PullAgain(g) ==
    /\ g \in 1..Len(gens)
    /\ gens[g].pc \in {"done", "raised", "closed"}
    /\ gens[g].again < MaxAgain
    /\ gens' = [gens EXCEPT ![g].again = @ + 1]
    /\ UNCHANGED <<systemPrompt, history, asked, reentered, chat>>

\* Variant of reply: the content is returned without the isinstance assert.
reply_unchecked(resp) ==
    IF resp.connect = "refused" THEN [exc |-> "ConnectionError", val |-> Absent]
    ELSE IF resp.status # 200 THEN [exc |-> "RuntimeError", val |-> Absent]
    ELSE IF resp.body.json = "invalid" THEN [exc |-> "JSONDecodeError", val |-> Absent]
    ELSE IF resp.body.json # "object" THEN [exc |-> "AttributeError", val |-> Absent]
    ELSE IF resp.body.message = "other" THEN [exc |-> "AttributeError", val |-> Absent]
    ELSE LET content == IF resp.body.message = "dict" /\ resp.body.content.t # "absent"
                        THEN resp.body.content ELSE Str(<<>>)
         IN  [exc |-> "none", val |-> content]

\* The result of call_llm(stream=False) and of the assert that follows.
reply(resp) ==
    IF resp.connect = "refused" THEN [exc |-> "ConnectionError", val |-> Absent]
    ELSE IF resp.status # 200 THEN [exc |-> "RuntimeError", val |-> Absent]
    ELSE IF resp.body.json = "invalid" THEN [exc |-> "JSONDecodeError", val |-> Absent]
    ELSE IF resp.body.json # "object" THEN [exc |-> "AttributeError", val |-> Absent]
    ELSE IF resp.body.message = "other" THEN [exc |-> "AttributeError", val |-> Absent]
    ELSE LET content == IF resp.body.message = "dict" /\ resp.body.content.t # "absent"
                        THEN resp.body.content ELSE Str(<<>>)
         IN  IF IsStr(content) THEN [exc |-> "none", val |-> content]
             ELSE [exc |-> "AssertionError", val |-> content]

\* Variant of AskUpTo: the user turn is appended before the request is sent.
AskUpTo_appends_user_first(prompt, n) ==
    /\ Len(gens) + asked.n < n
    /\ \E resp \in AskResponses :
          LET r == reply(resp)
          IN  /\ asked' = [n |-> asked.n + 1,
                          ok |-> IF r.exc = "none" THEN asked.ok + 1 ELSE asked.ok,
                          prompt |-> prompt,
                          request |-> messages(systemPrompt, history, prompt),
                          resp |-> resp, exc |-> r.exc, reply |-> r.val]
              /\ history' = IF r.exc = "none"
                            THEN history \o <<Turn("user", Str(prompt)),
                                              Turn("assistant", r.val)>>
                            ELSE Append(history, Turn("user", Str(prompt)))
    /\ reentered' = (reentered \/ streaming # {})
    /\ UNCHANGED <<systemPrompt, gens, chat>>

\* ask(prompt), at most n calls in all.
AskUpTo(prompt, n) ==
    /\ Len(gens) + asked.n < n
    /\ \E resp \in AskResponses :
          LET r == reply(resp)
          IN  /\ asked' = [n |-> asked.n + 1,
                          ok |-> IF r.exc = "none" THEN asked.ok + 1 ELSE asked.ok,
                          prompt |-> prompt,
                          request |-> messages(systemPrompt, history, prompt),
                          resp |-> resp, exc |-> r.exc, reply |-> r.val]
              /\ history' = IF r.exc = "none"
                            THEN history \o <<Turn("user", Str(prompt)),
                                              Turn("assistant", r.val)>>
                            ELSE history
    /\ reentered' = (reentered \/ streaming # {})
    /\ UNCHANGED <<systemPrompt, gens, chat>>

Ask(prompt) == AskUpTo(prompt, MaxCalls)

Next ==
    \/ \E prompt \in Prompts : AskStream(prompt)
    \/ \E g \in 1..MaxCalls : Pull(g)
    \/ \E g \in 1..MaxCalls : Close(g)
    \/ \E prompt \in Prompts : Ask(prompt)

Spec == Init /\ [][Next]_vars

\* One exchange on a fresh session, the body drawn from every sequence of
\* at most MaxLines lines.
InitStream == Init /\ systemPrompt = SYSTEM_PROMPT

PullStream(g) == PullFrom(g, StreamResponses) /\ UNCHANGED chat

NextStream ==
    \/ AskStreamUpTo(<<"h", "i">>, 1) /\ UNCHANGED chat
    \/ PullStream(1)
    \/ Close(1)
    \/ PullAgain(1)

SpecStream == InitStream /\ [][NextStream]_vars

\* ------------------------------------------------- a history set by hand
\* The entries a caller can put in the history list: mappings whose role and
\* content are of any type.
RawTurns ==
    { Turn(r, c) : r \in {"user", "system", "tool"} \cup NonTextRoles,
                   c \in {Str(Hel), Num(<<"5">>), Absent} }

\* The session starts with such a list as its history.
InitHistory ==
    /\ systemPrompt \in { SYSTEM_PROMPT, <<>> }
    /\ history \in SeqsUpTo(RawTurns, MaxTurns)
    /\ gens = <<>>
    /\ asked = [n |-> 0, ok |-> 0, prompt |-> <<>>, request |-> <<>>,
                resp |-> NoAskResponse, exc |-> "none", reply |-> Absent]
    /\ reentered = FALSE
    /\ chat = chat0

NextHistory == AskUpTo(<<"h", "i">>, 1)

SpecHistory == InitHistory /\ [][NextHistory]_vars

\* ---------------------------------------------------------- the chat loop
\* What the consumer of generator G got from the resumption that has just
\* run: a fragment, the end of the sequence, or the exception raised.
outcome(G) ==
    IF G.pc = "suspended"
    THEN [kind |-> "yield", val |-> G.delivered[Len(G.delivered)]]
    ELSE IF G.pc = "done" THEN [kind |-> "return", val |-> Absent]
    ELSE [kind |-> G.exc, val |-> Absent]

\* Variant of capture_and_yield: the accumulator keeps the last element only.
capture_and_yield_overwrites(collected, r) ==
    [collected |-> IF r.kind = "yield" THEN <<r.val>> ELSE collected,
     out |-> r]

\* capture_and_yield: one resumption of the tee around the sequence; r is
\* what the inner sequence gave.
capture_and_yield(collected, r) ==
    [collected |-> IF r.kind = "yield" THEN Append(collected, r.val) ELSE collected,
     out |-> r]

\* Variant of llm_log: an exception of the sequence ends the printing.
llm_log_swallows(printed, r, prints) ==
    [printed |-> IF r.kind = "yield" /\ prints THEN Append(printed, r.val) ELSE printed,
     out |-> IF r.kind = "yield"
             THEN (IF prints THEN [kind |-> "continue", val |-> Absent]
                   ELSE [kind |-> "PrintError", val |-> Absent])
             ELSE [kind |-> "return", val |-> Absent]]

\* llm_log(data, stream=True): one turn of its loop over the sequence; a
\* fragment is printed and the loop goes on, anything else leaves the call;
\* so does an exception of print() (an encoding or output error), prints
\* telling whether print() succeeds.
llm_log(printed, r, prints) ==
    [printed |-> IF r.kind = "yield" /\ prints THEN Append(printed, r.val) ELSE printed,
     out |-> IF r.kind = "yield"
             THEN (IF prints THEN [kind |-> "continue", val |-> Absent]
                   ELSE [kind |-> "PrintError", val |-> Absent])
             ELSE r]

\* str.lower(), str.strip(), str.startswith(), the in operator on str.
UpperLetters == <<"A", "B", "C", "D", "E", "F", "G", "H", "I", "J", "K", "L", "M",
                  "N", "O", "P", "Q", "R", "S", "T", "U", "V", "W", "X", "Y", "Z">>
LowerLetters == <<"a", "b", "c", "d", "e", "f", "g", "h", "i", "j", "k", "l", "m",
                  "n", "o", "p", "q", "r", "s", "t", "u", "v", "w", "x", "y", "z">>
lowerChar(c) ==
    IF \E i \in 1..26 : UpperLetters[i] = c
    THEN LowerLetters[CHOOSE i \in 1..26 : UpperLetters[i] = c]
    ELSE c
lower(s) == [i \in 1..Len(s) |-> lowerChar(s[i])]

RECURSIVE lstrip(_)
lstrip(s) == IF s # <<>> /\ Head(s) = " " THEN lstrip(Tail(s)) ELSE s
RECURSIVE rstrip(_)
rstrip(s) == IF s # <<>> /\ s[Len(s)] = " " THEN rstrip(SubSeq(s, 1, Len(s) - 1)) ELSE s
strip(s) == rstrip(lstrip(s))

startswith(s, p) == Len(p) <= Len(s) /\ SubSeq(s, 1, Len(p)) = p
contains(s, sub) ==
    \E i \in 1..(Len(s) - Len(sub) + 1) : SubSeq(s, i, i + Len(sub) - 1) = sub

\* int() on a run of decimal digits.
Digits == <<"0", "1", "2", "3", "4", "5", "6", "7", "8", "9">>
isDigit(c) == \E d \in 1..10 : Digits[d] = c
digitValue(c) == (CHOOSE d \in 1..10 : Digits[d] = c) - 1
RECURSIVE number(_, _, _)
number(s, i, acc) ==
    IF i <= Len(s) /\ isDigit(s[i]) THEN number(s, i + 1, acc * 10 + digitValue(s[i]))
    ELSE acc
RECURSIVE skipSpaces(_, _)
skipSpaces(s, i) == IF i <= Len(s) /\ s[i] = " " THEN skipSpaces(s, i + 1) ELSE i

\* \s*(\d+) matched at position i: the number, -1 without a match.
numberAfter(s, i) ==
    LET j == skipSpaces(s, i)
    IN  IF j <= Len(s) /\ isDigit(s[j]) THEN number(s, j, 0) ELSE -1

\* re.search(r"(microphone|mic)\s*(\d+)", cmd): group 2 of the leftmost
\* match as a number, -1 without a match.
matchAt(s, i) ==
    LET word(w) == i + Len(w) - 1 <= Len(s) /\ SubSeq(s, i, i + Len(w) - 1) = w
        long == <<"m", "i", "c", "r", "o", "p", "h", "o", "n", "e">>
        short == <<"m", "i", "c">>
    IN  IF word(long) /\ numberAfter(s, i + Len(long)) # -1
        THEN numberAfter(s, i + Len(long))
        ELSE IF word(short) THEN numberAfter(s, i + Len(short))
        ELSE -1
search(s) ==
    LET hits == { i \in 1..Len(s) : matchAt(s, i) # -1 }
    IN  IF hits = {} THEN -1
        ELSE matchAt(s, CHOOSE i \in hits : \A j \in hits : i <= j)

\* int(user.strip().split()[1]): the second word as a number, -1 (None)
\* when there is none or it is not a number.
RECURSIVE skipWord(_, _)
skipWord(s, i) == IF i <= Len(s) /\ s[i] # " " THEN skipWord(s, i + 1) ELSE i
secondWord(s) ==
    LET t == strip(s)
        from == skipSpaces(t, skipWord(t, 1))
    IN  SubSeq(t, from, skipWord(t, from) - 1)
intOf(w) ==
    IF w # <<>> /\ \A i \in 1..Len(w) : isDigit(w[i]) THEN number(w, 1, 0) ELSE -1

\* The index the microphone-set branch works out, -1 for None.
micIndex(user) ==
    LET cmd == lower(strip(user))
        idx == search(cmd)
    IN  IF idx = -1 /\ startswith(cmd, <<"/", "m", "i", "c", "s", "e", "t">>)
        THEN intOf(secondWord(user))
        ELSE idx

\* Variant of dispatch: the exit words end the loop only when they are the
\* whole utterance.
dispatch_exit_exact(user) ==
    LET cmd == lower(strip(user))
    IN  IF cmd \in { <<"/", "b", "y", "e">>, <<"g", "o", "o", "d", "b", "y", "e">>, <<"e", "x", "i", "t">>, <<"q", "u", "i", "t">> }
        THEN "exit"
        ELSE IF \/ startswith(cmd, <<"/", "v", "o", "i", "c", "e">>)
                \/ contains(cmd, <<"v", "o", "i", "c", "e", " ", "m", "e", "n", "u">>)
                \/ cmd = <<"v", "o", "i", "c", "e">>
        THEN "voice"
        ELSE IF \/ startswith(cmd, <<"/", "m", "i", "c", "s">>)
                \/ contains(cmd, <<"m", "i", "c", "r", "o", "p", "h", "o", "n", "e", "s">>)
                \/ contains(cmd, <<"l", "i", "s", "t", " ", "m", "i", "c", "r", "o", "p", "h", "o", "n", "e", "s">>)
        THEN "mics"
        ELSE IF \/ startswith(cmd, <<"/", "m", "i", "c", "s", "e", "t">>)
                \/ contains(cmd, <<"s", "e", "t", " ", "m", "i", "c", "r", "o", "p", "h", "o", "n", "e">>)
                \/ startswith(cmd, <<"m", "i", "c", "r", "o", "p", "h", "o", "n", "e", " ">>)
        THEN "micset"
        ELSE "ask"

\* main: the branch an utterance takes, the tests made in this order.
dispatch(user) ==
    LET cmd == lower(strip(user))
    IN  IF \/ cmd = <<"/", "b", "y", "e">>
           \/ contains(cmd, <<"g", "o", "o", "d", "b", "y", "e">>)
           \/ contains(cmd, <<"e", "x", "i", "t">>)
           \/ contains(cmd, <<"q", "u", "i", "t">>)
        THEN "exit"
        ELSE IF \/ startswith(cmd, <<"/", "v", "o", "i", "c", "e">>)
                \/ contains(cmd, <<"v", "o", "i", "c", "e", " ", "m", "e", "n", "u">>)
                \/ cmd = <<"v", "o", "i", "c", "e">>
        THEN "voice"
        ELSE IF \/ startswith(cmd, <<"/", "m", "i", "c", "s">>)
                \/ contains(cmd, <<"m", "i", "c", "r", "o", "p", "h", "o", "n", "e", "s">>)
                \/ contains(cmd, <<"l", "i", "s", "t", " ", "m", "i", "c", "r", "o", "p", "h", "o", "n", "e", "s">>)
        THEN "mics"
        ELSE IF \/ startswith(cmd, <<"/", "m", "i", "c", "s", "e", "t">>)
                \/ contains(cmd, <<"s", "e", "t", " ", "m", "i", "c", "r", "o", "p", "h", "o", "n", "e">>)
                \/ startswith(cmd, <<"m", "i", "c", "r", "o", "p", "h", "o", "n", "e", " ">>)
        THEN "micset"
        ELSE "ask"

\* What get_next_user_text returns: recognized text, stripped and not blank.
Utterances ==
    { <<"h", "i">>,
      <<"o", "k">>,
      <<"/", "b", "y", "e">>,
      <<"G", "o", "o", "d", "b", "y", "e">>,
      <<"w", "h", "y", " ", "q", "u", "i", "t">>,
      <<"v", "o", "i", "c", "e">>,
      <<"/", "m", "i", "c", "s">>,
      <<"/", "m", "i", "c", "s", "e", "t", " ", "2">>,
      <<"s", "e", "t", " ", "m", "i", "c", "r", "o", "p", "h", "o", "n", "e", " ", "1">>,
      <<"s", "e", "t", " ", "m", "i", "c", "r", "o", "p", "h", "o", "n", "e">> }

\* The session of the chat loop is built with the system prompt; speech
\* output is available or not.
InitChat ==
    /\ systemPrompt = SYSTEM_PROMPT
    /\ history = <<>>
    /\ gens = <<>>
    /\ asked = [n |-> 0, ok |-> 0, prompt |-> <<>>, request |-> <<>>,
                resp |-> NoAskResponse, exc |-> "none", reply |-> Absent]
    /\ reentered = FALSE
    /\ \E t \in BOOLEAN : chat = [chat0 EXCEPT !.tts = t]

\* main: an utterance that is a command; rest is what the queue holds after
\* the utterance was read.  An exit command leaves the loop; the others are
\* handled and the loop calls get_next_user_text again, which enables
\* capture and empties the queue.
ChatCommand(user, rest) ==
    /\ chat.pc = "input"
    /\ dispatch(user) # "ask"
    /\ chat' = [chat EXCEPT
                  !.user = user,
                  !.last = dispatch(user),
                  !.pc = IF dispatch(user) = "exit" THEN "ended" ELSE "input",
                  !.mic = IF dispatch(user) = "micset" /\ micIndex(user) # -1
                          THEN micIndex(user) ELSE @,
                  !.capture = IF dispatch(user) = "exit" THEN @ ELSE TRUE,
                  !.queue = IF dispatch(user) = "exit" THEN rest ELSE <<>>]
    /\ UNCHANGED <<systemPrompt, history, gens, asked, reentered>>

\* main: an utterance that is no command disables capture and is sent with
\* ask_stream.
ChatAsk(user, rest) ==
    /\ chat.pc = "input"
    /\ dispatch(user) = "ask"
    /\ AskStreamUpTo(user, MaxCalls)
    /\ chat' = [chat EXCEPT !.pc = "streaming", !.gen = Len(gens) + 1,
                            !.user = user, !.last = "ask",
                            !.collected = <<>>, !.forwarded = <<>>, !.printed = <<>>,
                            !.speaks = 0, !.said = <<>>, !.spoke = "none",
                            !.capture = FALSE, !.queue = rest]

\* main: llm_log pulls the next fragment through the tee; prints tells
\* whether print() of the fragment succeeds.
ChatPull(prints) ==
    /\ chat.pc = "streaming"
    /\ PullFrom(chat.gen, SessionResponses)
    /\ LET tee == capture_and_yield(chat.collected, outcome(gens'[chat.gen]))
           log == llm_log(chat.printed, tee.out, prints)
       IN  chat' = [chat EXCEPT
                      !.collected = tee.collected,
                      !.forwarded = IF tee.out.kind = "yield"
                                    THEN Append(@, tee.out.val) ELSE @,
                      !.printed = log.printed,
                      !.pc = IF log.out.kind = "continue" THEN "streaming"
                             ELSE IF log.out.kind = "return" THEN "speak"
                             ELSE "crashed",
                      !.exc = IF log.out.kind \in {"continue", "return"} THEN "none"
                              ELSE log.out.kind]

\* The outcomes of speak(): True, False, or an exception raised to main.
SpeakResults == {"True", "False", "raise"}

\* Variant of ChatSpeak: an exception of speak() leaves main.
ChatSpeak_fatal(result) ==
    /\ chat.pc = "speak"
    /\ LET speaks == chat.tts /\ chat.collected # <<>> /\ joinable(chat.collected)
                     /\ strip(join(chat.collected)) # <<>>
       IN  /\ speaks \/ result = "True"
           /\ chat' = [chat EXCEPT
                  !.speaks = IF speaks THEN @ + 1 ELSE @,
                  !.said = IF speaks THEN join(chat.collected) ELSE @,
                  !.spoke = IF speaks THEN result ELSE @,
                  !.pc = IF speaks /\ result = "raise" THEN "crashed" ELSE "input",
                  !.exc = IF speaks /\ result = "raise" THEN "Exception" ELSE @,
                  !.capture = IF speaks /\ result = "raise" THEN @ ELSE TRUE,
                  !.queue = IF speaks /\ result = "raise" THEN @ ELSE <<>>]
    /\ UNCHANGED <<systemPrompt, history, gens, asked, reentered>>

\* main, after llm_log returned: the collected text is joined and spoken
\* when speech is available and the text is not blank; whatever speak()
\* does, capture is enabled again and the loop goes back to its input,
\* where get_next_user_text empties the queue.
ChatSpeak(result) ==
    /\ chat.pc = "speak"
    /\ LET speaks == chat.tts /\ chat.collected # <<>> /\ joinable(chat.collected)
                     /\ strip(join(chat.collected)) # <<>>
           fails == chat.tts /\ chat.collected # <<>> /\ ~joinable(chat.collected)
       IN  /\ speaks \/ result = "True"
           /\ chat' = [chat EXCEPT
                  !.speaks = IF speaks THEN @ + 1 ELSE @,
                  !.said = IF speaks THEN join(chat.collected) ELSE @,
                  !.spoke = IF speaks THEN result ELSE @,
                  !.pc = IF fails THEN "crashed" ELSE "input",
                  !.exc = IF fails THEN "TypeError" ELSE @,
                  !.capture = IF fails THEN @ ELSE TRUE,
                  !.queue = IF fails THEN @ ELSE <<>>]
    /\ UNCHANGED <<systemPrompt, history, gens, asked, reentered>>

\* An exception has left main while the sequence was suspended: the
\* interpreter exits and the generator is finalised.
ChatExit ==
    /\ chat.pc = "crashed"
    /\ Close(chat.gen)

NextChat ==
    \/ \E user \in Utterances : ChatCommand(user, chat.queue)
    \/ \E user \in Utterances : ChatAsk(user, chat.queue)
    \/ \E prints \in BOOLEAN : ChatPull(prints)
    \/ \E result \in SpeakResults : ChatSpeak(result)
    \/ ChatExit

SpecChat == InitChat /\ [][NextChat]_vars

\* ------------------------------------------- the background recognizer
\* What the recognizer makes of a phrase: a text, or nothing (<<>>).
Recognitions == { <<"h", "i">>, <<"/", "b", "y", "e">>, <<>> }

\* callback, first half: a phrase was heard; the gate is tested once, before
\* the phrase is transcribed.  With capture disabled the callback returns.
CallbackCheck ==
    /\ chat.cb = "idle"
    /\ chat.capture
    /\ Len(chat.queue) < MaxQueue
    /\ chat' = [chat EXCEPT !.cb = "checked"]
    /\ UNCHANGED <<systemPrompt, history, gens, asked, reentered>>

\* callback, second half: the transcription is done and a text that is not
\* blank is put on the queue; late records a put made with capture disabled.
CallbackPut(text) ==
    /\ chat.cb = "checked"
    /\ chat' = [chat EXCEPT
                  !.cb = "idle",
                  !.queue = IF strip(text) # <<>> THEN Append(@, text) ELSE @,
                  !.late = @ \/ (strip(text) # <<>> /\ ~chat.capture)]
    /\ UNCHANGED <<systemPrompt, history, gens, asked, reentered>>

\* " ".join(parts)
RECURSIVE joinParts(_)
joinParts(parts) ==
    IF Len(parts) = 1 THEN strip(parts[1])
    ELSE strip(parts[1]) \o <<" ">> \o joinParts(Tail(parts))

\* get_next_user_text returns the first k texts of the queue as one
\* utterance, and main acts on it.
Recognized(k) ==
    /\ k \in 1..Len(chat.queue)
    /\ LET user == joinParts(SubSeq(chat.queue, 1, k))
           rest == SubSeq(chat.queue, k + 1, Len(chat.queue))
       IN  ChatCommand(user, rest) \/ ChatAsk(user, rest)

NextCapture ==
    \/ CallbackCheck
    \/ \E text \in Recognitions : CallbackPut(text)
    \/ \E k \in 1..MaxQueue : Recognized(k)
    \/ \E prints \in BOOLEAN : ChatPull(prints)
    \/ \E result \in SpeakResults : ChatSpeak(result)
    \/ ChatExit

SpecCapture == InitChat /\ [][NextCapture]_vars

\* ------------------------------------------------------------ properties
\* Exceptions that leave the generator of call_llm (the transport); a
\* TypeError comes from "".join in _gen.
TransportExc == {"ConnectionError", "RuntimeError", "AttributeError"}

\* Concatenation of text values, last fragment split off first.
RECURSIVE Concatenation(_)
Concatenation(fs) ==
    IF fs = <<>> THEN <<>>
    ELSE Concatenation(SubSeq(fs, 1, Len(fs) - 1)) \o fs[Len(fs)].v

IsPrefix(s, t) == Len(s) <= Len(t) /\ SubSeq(t, 1, Len(s)) = s

\* C1: a pull on which the transport raises, at the first pull or after any
\* number of delivered fragments, leaves the history exactly as it was: no
\* user-only or partial assistant turn is appended.
C1_HistoryAtomicity ==
    [][\A g \in 1..Len(gens) :
          (gens[g].pc # "raised" /\ gens'[g].pc = "raised"
             /\ gens'[g].exc \in TransportExc)
          => history' = history]_vars

\* A transport failure after a delivered fragment, on a session whose
\* history already holds a committed pair.
C1_Witness ==
    \E g \in 1..Len(gens) :
        /\ gens[g].pc = "raised"
        /\ gens[g].exc = "ConnectionError"
        /\ Len(gens[g].delivered) >= 1
        /\ Len(history) = 2

\* C2: the pull that exhausts a sequence without error appends exactly two
\* entries, the user turn with the input text and then the assistant turn
\* with the concatenation of the delivered fragments in delivery order; the
\* earlier entries are unchanged.
C2_HistoryGrowth ==
    [][\A g \in 1..Len(gens) :
          (gens[g].pc # "done" /\ gens'[g].pc = "done")
          => history' = history \o
                <<Turn("user", Str(gens[g].prompt)),
                  Turn("assistant", Str(Concatenation(gens'[g].delivered)))>>]_vars

\* A second exchange has committed "Hello" after two fragments.
C2_Witness ==
    /\ Len(history) = 4
    /\ \E g \in 1..Len(gens) :
          /\ gens[g].pc = "done"
          /\ Len(gens[g].delivered) = 2
          /\ history[4] = Turn("assistant", Str(<<"H", "e", "l", "l", "o">>))
          /\ history[3] = Turn("user", Str(gens[g].prompt))

\* C3: delivering a fragment appends nothing, closing or discarding a
\* sequence that was not exhausted appends nothing, and a closed sequence
\* never runs again, so an abandoned exchange never reaches the history.
C3_EarlyTerminationNonCommit ==
    [][\A g \in 1..Len(gens) :
          /\ (gens'[g] # gens[g] /\ gens'[g].pc = "suspended") => history' = history
          /\ (gens[g].pc # "closed" /\ gens'[g].pc = "closed") => history' = history
          /\ gens[g].pc = "closed" => gens'[g] = gens[g]]_vars

\* A sequence closed after its last fragment was delivered, before the end
\* of the stream was observed; nothing was appended.
C3_Witness ==
    \E g \in 1..Len(gens) :
        /\ gens[g].pc = "closed"
        /\ gens[g].resp = Ok(<<DeltaHel, DeltaLo>>, "eof")
        /\ Len(gens[g].delivered) = 2
        /\ history = <<>>

\* C4: in every state the history is a sequence of adjacent (user,
\* assistant) pairs: its length is even and the roles alternate, user first.
C4_PairedHistory ==
    /\ Len(history) % 2 = 0
    /\ \A i \in 1..Len(history) :
          history[i].role = IF i % 2 = 1 THEN "user" ELSE "assistant"

\* The other half of C4: no step shrinks or reorders the history.
AppendOnlyHistory == [][IsPrefix(history, history')]_vars

\* Exchanges that have committed so far.
Committed ==
    Cardinality({ g \in 1..Len(gens) : gens[g].pc = "done" }) + asked.ok

\* The request the claim describes: the system prompt if it is not empty,
\* the history h in order, the new user message.
ExpectedRequest(h, prompt) ==
    (IF systemPrompt # <<>> THEN <<Turn("system", Str(systemPrompt))>> ELSE <<>>)
    \o h \o <<Turn("user", Str(prompt))>>

\* Roles system, (user, assistant) x n, user.
ExpectedRoles(req, n) ==
    /\ Len(req) = 1 + 2 * n + 1
    /\ req[1].role = "system"
    /\ \A i \in 1..n : req[2 * i].role = "user" /\ req[2 * i + 1].role = "assistant"
    /\ req[2 * n + 2].role = "user"

\* C5: the request of every exchange is the system prompt (if not empty),
\* the history turns in order and the new user message; with a system
\* prompt set and n exchanges committed it has 1 + 2n + 1 messages with
\* roles system, (user, assistant) x n, user.
C5_RequestMessages ==
    [][/\ \A g \in 1..Len(gens) :
            (gens[g].pc = "created" /\ gens'[g].pc \notin {"created", "closed"})
            => /\ gens'[g].request = ExpectedRequest(history, gens[g].prompt)
               /\ systemPrompt # <<>> => ExpectedRoles(gens'[g].request, Committed)
       /\ asked'.n # asked.n
            => /\ asked'.request = ExpectedRequest(history, asked'.prompt)
               /\ systemPrompt # <<>> => ExpectedRoles(asked'.request, Committed)]_vars

\* ---- one exchange, every body of at most MaxLines lines
Started == gens # <<>> /\ gens[1].pc \notin {"created"} /\ gens[1].resp # NoResponse

Over(G) == G.pc \in {"done", "raised"}

\* A line that carries a non-empty text content delta.
WellFormedDelta(l) ==
    /\ l.json = "object"
    /\ l.message = "dict"
    /\ IsStr(l.content)
    /\ l.content.v # <<>>

IsDoneLine(l) == l.json = "object" /\ l.done = JTrue
HasErrorField(l) == l.json = "object" /\ l.error.t # "absent"
IsErrorLine(l) == l.json = "object" /\ Truthy(l.error)

\* Lines before the first done or error line.
BeforeEnd(ls) ==
    LET ends == { i \in 1..Len(ls) : IsDoneLine(ls[i]) \/ IsErrorLine(ls[i]) }
        first == IF ends = {} THEN Len(ls) + 1
                 ELSE CHOOSE i \in ends : \A j \in ends : i <= j
    IN  SubSeq(ls, 1, first - 1)

Contents(ls) == [i \in 1..Len(ls) |-> ls[i].content]

\* C6: when the exchange is over the consumer has received exactly the
\* non-empty content deltas of the well-formed lines before the first done
\* or error line, in line order, and a committed assistant turn is their
\* concatenation.
C6_OrderPreservation ==
    Started /\ Over(gens[1]) =>
        /\ gens[1].delivered =
              Contents(SelectSeq(BeforeEnd(gens[1].resp.lines), WellFormedDelta))
        /\ gens[1].pc = "done" =>
              history = <<Turn("user", Str(gens[1].prompt)),
                          Turn("assistant", Str(Concatenation(gens[1].delivered)))>>

\* Whatever a line hands to the consumer when it is read as a delta line.
CarriesFragment(l) ==
    l.json = "object" /\ l.message = "dict" /\ Truthy(l.content)

FragmentsOf(ls) == Contents(SelectSeq(ls, CarriesFragment))

\* What reading line i as an error line amounts to: the sequence raised on
\* that line, after the fragments of the earlier lines and nothing else
\* were delivered, and nothing was appended.
RaisedAt(G, i) ==
    /\ G.pc = "raised"
    /\ G.exc = "RuntimeError"
    /\ G.pos = i
    /\ G.delivered = FragmentsOf(SubSeq(G.resp.lines, 1, i - 1))
    /\ history = <<>>

\* C7 as stated: every line read that carries an error field raised the
\* transport error on that line.
C7_ErrorFieldTerminates ==
    Started =>
        \A i \in 1..gens[1].pos :
            HasErrorField(gens[1].resp.lines[i]) => RaisedAt(gens[1], i)

\* C7 amended: every line read whose error field is non-empty (true in
\* Python's sense) raised the transport error on that line, after the
\* fragments of the earlier lines, with nothing appended.
C7_ErrorLineTerminates ==
    Started =>
        \A i \in 1..gens[1].pos :
            IsErrorLine(gens[1].resp.lines[i]) => RaisedAt(gens[1], i)

\* An error line between two delta lines: the first fragment was delivered,
\* the last one never.
C7_Witness ==
    /\ Started
    /\ gens[1].resp.lines = <<DeltaHel, ErrorLine, DeltaLo>>
    /\ gens[1].pc = "raised"
    /\ gens[1].delivered = <<Str(Hel)>>

\* Full consumption of a response: the fragments delivered and how the
\* generator of call_llm ended.
RECURSIVE DrainFrom(_, _, _)
DrainFrom(resp, r, acc) ==
    IF r.kind = "yield"
    THEN DrainFrom(resp, generator(resp, r.pos + 1), Append(acc, r.val))
    ELSE [delivered |-> acc, kind |-> r.kind]

Drain(resp) == DrainFrom(resp, start(resp), <<>>)

Skippable(l) == l.json \in {"blank", "invalid"}

WithoutSkippable(resp) ==
    [resp EXCEPT !.lines = SelectSeq(resp.lines, LAMBDA l : ~Skippable(l))]

Ending(G) == IF G.pc = "done" \/ G.exc = "TypeError" THEN "return" ELSE G.exc

\* C8: blank lines and lines that are not valid JSON change nothing: what
\* the consumer has received is a prefix of what the same body without
\* those lines delivers, and when the exchange is over it is all of it and
\* the stream ended the same way.
C8_MalformedLineTolerance ==
    Started =>
        LET G == gens[1]
            D == Drain(WithoutSkippable(G.resp))
        IN  /\ IsPrefix(G.delivered, D.delivered)
            /\ Over(G) => G.delivered = D.delivered /\ Ending(G) = D.kind

\* A line that is not JSON between two delta lines: both fragments were
\* delivered and committed as "Hello".
C8_Witness ==
    /\ Started
    /\ gens[1].resp.lines = <<DeltaHel, InvalidLine, DeltaLo>>
    /\ gens[1].pc = "done"
    /\ gens[1].delivered = <<Str(Hel), Str(Lo)>>
    /\ history[2].content = Str(<<"H", "e", "l", "l", "o">>)

\* A line that decodes as JSON but has not the expected shape.
WrongShape(l) ==
    \/ l.json = "nondict"
    \/ l.json = "object" /\ l.message = "other"

\* C9: reading a line of JSON that is not an object of the expected shape
\* never raises: the sequence has not raised on such a line.
C9_WrongShapeSkipped ==
    Started =>
        \A i \in 1..gens[1].pos :
            WrongShape(gens[1].resp.lines[i])
            => ~(gens[1].pc = "raised" /\ gens[1].pos = i
                   /\ gens[1].exc = "AttributeError")

\* C10: once a line whose done flag is true was read, the sequence ended
\* normally on that line, the consumer has received the fragments of the
\* earlier lines only, and the exchange committed exactly those.
C10_DoneStops ==
    Started =>
        \A i \in 1..gens[1].pos :
            IsDoneLine(gens[1].resp.lines[i])
            => /\ gens[1].pc = "done"
               /\ gens[1].pos = i
               /\ gens[1].delivered = FragmentsOf(SubSeq(gens[1].resp.lines, 1, i - 1))
               /\ history = <<Turn("user", Str(gens[1].prompt)),
                              Turn("assistant", Str(Concatenation(gens[1].delivered)))>>

\* ---- later properties of the session
Terminal(G) == G.pc \in {"done", "raised", "closed"}

C12_NonRestartable ==
    [][\A g \in 1..Len(gens) :
          gens[g].pc \in {"done", "raised"} =>
              /\ gens'[g].pc = gens[g].pc
              /\ gens'[g].delivered = gens[g].delivered
              /\ gens'[g].request = gens[g].request
              /\ gens'[g].conn = gens[g].conn
              /\ history' = history]_vars

\* An exhausted sequence was pulled again: still the two fragments and the
\* one committed pair.
C12_Witness ==
    /\ Started
    /\ gens[1].pc = "done"
    /\ gens[1].again >= 1
    /\ gens[1].delivered = <<Str(Hel), Str(Lo)>>
    /\ Len(history) = 2

\* The turns of the history that a request carried: the request without its
\* system message and without its new user message.
HistoryPart(req) ==
    LET from == IF req # <<>> /\ req[1].role = "system" /\ systemPrompt # <<>>
                THEN 2 ELSE 1
    IN  SubSeq(req, from, Len(req) - 1)

\* Generator g commits in this step.
Commits(g) == gens[g].pc # "done" /\ gens'[g].pc = "done"

\* C13 as stated: in no reachable state are two exchanges of the session
\* both streaming.  The session has no guard against it.
C13_NoTwoStreaming == Cardinality(streaming) <= 1

\* C13 amended: the session does not prevent it, the caller must; as long as
\* the caller has never started an exchange while another was streaming, at
\* most one exchange is streaming and a pair is committed after exactly the
\* turns its request carried.
C13_NonReentrantCaller ==
    [][~reentered' =>
          /\ Cardinality(streaming') <= 1
          /\ \A g \in 1..Len(gens) :
                Commits(g) =>
                    /\ history = HistoryPart(gens'[g].request)
                    /\ Len(history') = Len(history) + 2
          /\ (asked'.n # asked.n /\ asked'.exc = "none") =>
                history = HistoryPart(asked'.request)]_vars

C13_Witness ==
    /\ ~reentered
    /\ Len(gens) = 2
    /\ gens[1].pc = "done" /\ gens[2].pc = "done"
    /\ Len(gens[2].request) = 4
    /\ Len(history) = 4

\* An ask call returns or raises in this step.
Asks == asked'.n = asked.n + 1

\* The failures C14 lists: no success status, a body that is not a JSON
\* object with a message object, a content that is present and not text.
AskFailure(resp) ==
    \/ resp.connect # "ok"
    \/ resp.status \notin 200..299
    \/ resp.body.json # "object"
    \/ resp.body.message = "other"
    \/ resp.body.message = "dict" /\ resp.body.content.t \notin {"absent", "str"}

\* The text a good response carries: its message content, "" without one.
AskText(resp) ==
    IF resp.body.message = "dict" /\ resp.body.content.t = "str"
    THEN resp.body.content ELSE Str(<<>>)

\* C14: an ask that returns has appended exactly the pair of the input text
\* and the returned reply, the reply being the message content of the
\* response, the empty string without one; an ask that fails raises and
\* leaves the history unchanged, and every listed failure does fail.
C14_AskCommitsOrRaises ==
    [][Asks =>
          /\ asked'.exc = "none" =>
                /\ history' = history \o <<Turn("user", Str(asked'.prompt)),
                                            Turn("assistant", asked'.reply)>>
                /\ asked'.reply = AskText(asked'.resp)
          /\ asked'.exc # "none" => history' = history
          /\ AskFailure(asked'.resp) => asked'.exc # "none"
          /\ (~AskFailure(asked'.resp) /\ asked'.resp.status = 200) =>
                asked'.exc = "none"]_vars

\* An ask answered without message content returned "" after a committed
\* exchange, and the pair with the empty reply is in the history.
C14_Witness ==
    /\ asked.n = 1 /\ asked.exc = "none"
    /\ asked.resp.body.message = "absent"
    /\ asked.reply = Str(<<>>)
    /\ Len(history) = 4
    /\ history[4] = Turn("assistant", Str(<<>>))

\* A response arrived and its status is not a success status.
BadStatus(resp) == resp.connect = "ok" /\ resp.status \notin 200..299

\* Generator g is resumed for the first time in this step.
FirstPull(g) == gens[g].pc = "created" /\ gens'[g].pc \notin {"created", "closed"}

\* C15: a response whose status is not 2xx makes the exchange fail with the
\* transport error (RuntimeError): in streaming mode on the first pull, with
\* no fragment delivered; in both modes the history is unchanged.
C15_BadStatusFails ==
    [][/\ \A g \in 1..Len(gens) :
             (FirstPull(g) /\ BadStatus(gens'[g].resp)) =>
                 /\ gens'[g].pc = "raised"
                 /\ gens'[g].exc = "RuntimeError"
                 /\ gens'[g].delivered = <<>>
                 /\ history' = history
       /\ (Asks /\ BadStatus(asked'.resp)) =>
             /\ asked'.exc = "RuntimeError"
             /\ history' = history]_vars

\* After a committed exchange, a streaming exchange was answered with status
\* 500 and raised on its first pull.
C15_Witness ==
    /\ Len(history) = 2
    /\ \E g \in 1..Len(gens) :
          /\ gens[g].resp = HttpError
          /\ gens[g].pc = "raised" /\ gens[g].exc = "RuntimeError"
          /\ gens[g].delivered = <<>>

\* str.strip(): the text without its leading and trailing white space.
RECURSIVE TrimLeft(_)
TrimLeft(s) == IF s # <<>> /\ Head(s) = " " THEN TrimLeft(Tail(s)) ELSE s
RECURSIVE TrimRight(_)
TrimRight(s) ==
    IF s # <<>> /\ s[Len(s)] = " " THEN TrimRight(SubSeq(s, 1, Len(s) - 1)) ELSE s
Trim(s) == TrimRight(TrimLeft(s))

\* C16 as stated: every persisted turn of role user or assistant has a
\* content that is not empty after trimming.
C16_NonEmptyContent ==
    \A i \in 1..Len(history) :
        history[i].role \in {"user", "assistant"} =>
            IsStr(history[i].content) /\ Trim(history[i].content.v) # <<>>

\* C16 amended: every persisted turn has role user or assistant and a text
\* content; the text may be blank (user) or empty (assistant).
C16_TextContent ==
    \A i \in 1..Len(history) :
        /\ history[i].role \in {"user", "assistant"}
        /\ IsStr(history[i].content)

\* A blank input answered by a stream with no fragment is persisted as is.
C16_Witness ==
    /\ history = <<Turn("user", Str(<<" ">>)), Turn("assistant", Str(<<>>))>>
    /\ \E g \in 1..Len(gens) : gens[g].pc = "done" /\ gens[g].resp = Ok(<<DoneLine>>, "eof")

\* Generator g fails with a transport error in this step.
Fails(g) ==
    gens[g].pc # "raised" /\ gens'[g].pc = "raised" /\ gens'[g].exc \in TransportExc

\* An exchange of the session has failed with a transport error.
AfterFailure ==
    \/ \E h \in 1..Len(gens) : gens[h].pc = "raised" /\ gens[h].exc \in TransportExc
    \/ asked.exc \in TransportExc

\* Exchanges that left a user turn behind when joining a non-text fragment.
Orphans ==
    Cardinality({ g \in 1..Len(gens) : gens[g].pc = "raised" /\ gens[g].exc = "TypeError" })

\* C17: an exchange that fails with a transport error leaves the history as
\* it was and its connection closed; after it, an exchange started with
\* ask_stream or ask sends the request built from that history, in which
\* failed exchanges have no part, and a commit appends its pair.
C17_RetryAfterFailure ==
    [][/\ \A g \in 1..Len(gens) :
             Fails(g) => history' = history /\ gens'[g].conn # "open"
       /\ (Asks /\ asked'.exc \in TransportExc) => history' = history
       /\ AfterFailure =>
             /\ Len(history) = 2 * Committed + Orphans
             /\ \A g \in 1..Len(gens) :
                   /\ FirstPull(g) =>
                         gens'[g].request = ExpectedRequest(history, gens[g].prompt)
                   /\ Commits(g) =>
                         history' = history \o
                             <<Turn("user", Str(gens[g].prompt)),
                               Turn("assistant", Str(Concatenation(gens'[g].delivered)))>>
             /\ Asks =>
                   /\ asked'.request = ExpectedRequest(history, asked'.prompt)
                   /\ asked'.exc = "none" =>
                         history' = history \o <<Turn("user", Str(asked'.prompt)),
                                                  Turn("assistant", asked'.reply)>>]_vars

\* A streaming exchange failed after a fragment; the next exchange sent the
\* request of an empty history and committed.
C17_Witness ==
    /\ Len(gens) = 2
    /\ gens[1].pc = "raised" /\ gens[1].exc \in TransportExc
    /\ Len(gens[1].delivered) = 1
    /\ gens[2].pc = "done"
    /\ gens[2].request = ExpectedRequest(<<>>, gens[2].prompt)
    /\ Len(history) = 2

\* The body ends with the connection closing, no line of it being a done
\* line or carrying an error field.
ClosesWithoutEnd(resp) ==
    /\ resp.connect = "ok" /\ resp.status = 200 /\ resp.tail = "eof"
    /\ \A i \in 1..Len(resp.lines) :
          ~IsDoneLine(resp.lines[i]) /\ ~HasErrorField(resp.lines[i])

RECURSIVE ErrorOfLines(_, _)
ErrorOfLines(ls, tail) ==
    IF ls = <<>> THEN (IF tail = "fail" THEN "ConnectionError" ELSE "none")
    ELSE IF IsErrorLine(Head(ls)) THEN "RuntimeError"
    ELSE IF IsDoneLine(Head(ls)) THEN "none"
    ELSE ErrorOfLines(Tail(ls), tail)

TransportError(resp) ==
    IF resp.connect = "refused" THEN "ConnectionError"
    ELSE IF resp.status \notin 200..299 THEN "RuntimeError"
    ELSE ErrorOfLines(resp.lines, resp.tail)

\* C19: the exception an exchange raises is the one the chat loop dies
\* with: when the sequence of the current exchange has raised, main has been
\* left by that same exception, and for a response that leads to a
\* transport error, consumed to its end, it is that error; the loop is
\* never back at its input after a raise.
C19_ErrorPropagation ==
    \A g \in 1..Len(gens) :
        /\ gens[g].pc = "raised" =>
              /\ chat.gen = g
              /\ chat.pc = "crashed"
              /\ chat.exc = gens[g].exc
        /\ (g = chat.gen /\ Over(gens[g])
              /\ TransportError(gens[g].resp) # "none") =>
              /\ chat.pc = "crashed"
              /\ chat.exc = TransportError(gens[g].resp)

\* The second exchange of the loop got a fragment and then an error line.
C19_Witness ==
    /\ Len(gens) = 2 /\ Len(history) = 2
    /\ gens[2].resp = Ok(<<DeltaHel, ErrorLine>>, "eof")
    /\ gens[2].pc = "raised"
    /\ chat.collected = <<Str(Hel)>>
    /\ chat.pc = "crashed" /\ chat.exc = "RuntimeError"

\* An entry the claim keeps: role and content are text and the role is one
\* of system, user, assistant.
ValidTurn(m) ==
    /\ m.role \notin NonTextRoles /\ m.content.t = "str"
    /\ m.role \in {"system", "user", "assistant"}

\* The entries of h that are kept, in order, one entry at a time.
RECURSIVE KeptOf(_)
KeptOf(h) ==
    IF h = <<>> THEN <<>>
    ELSE IF ValidTurn(Head(h)) THEN <<Head(h)>> \o KeptOf(Tail(h))
    ELSE KeptOf(Tail(h))

\* C20: the request built from a history list carries, between the system
\* prompt and the new message, exactly the entries whose role and content
\* are text and whose role is system, user or assistant, in their order and
\* unchanged; the other entries are dropped and do not make the call fail.
C20_HistoryFilter ==
    [][Asks =>
          /\ asked'.request = ExpectedRequest(KeptOf(history), asked'.prompt)
          /\ asked'.exc = reply(asked'.resp).exc
          /\ ~AskFailure(asked'.resp) /\ asked'.resp.status = 200 => asked'.exc = "none"]_vars

\* An entry of role tool and an entry of non-text content were dropped from
\* between and after two entries that were sent.
C20_Witness ==
    /\ asked.n = 1 /\ asked.exc = "none"
    /\ systemPrompt # <<>>
    /\ Len(asked.request) = 4
    /\ asked.request[2] = Turn("user", Str(Hel))
    /\ asked.request[3] = Turn("system", Str(Hel))
    /\ SubSeq(history, 1, 3) = <<Turn("user", Str(Hel)), Turn("tool", Str(Hel)),
                                 Turn("system", Str(Hel))>>

\* The exchange the chat loop is in or has just left.
Current == gens[chat.gen]

\* C21: what the tee has forwarded to its consumer is what its input
\* sequence has delivered, element by element, and the accumulator holds
\* exactly the forwarded elements; when the sequence has ended, the
\* concatenation of the accumulator is the assistant content committed for
\* that exchange.
C21_TeeForwards ==
    chat.gen # 0 =>
        /\ chat.forwarded = Current.delivered
        /\ chat.collected = chat.forwarded
        /\ Current.pc = "done" =>
              /\ Len(history) >= 2
              /\ history[Len(history) - 1] = Turn("user", Str(Current.prompt))
              /\ history[Len(history)] =
                     Turn("assistant", Str(Concatenation(chat.collected)))

\* The second exchange of the loop was drained: two fragments went through
\* the tee and their concatenation was committed.
C21_Witness ==
    /\ chat.gen = 2 /\ Current.pc = "done"
    /\ chat.collected = <<Str(Hel), Str(Lo)>>
    /\ chat.forwarded = <<Str(Hel), Str(Lo)>>
    /\ Len(history) = 4
    /\ history[4] = Turn("assistant", Str(Hel \o Lo))

\* speak() is called in this step.
Speaks == chat'.speaks = chat.speaks + 1

\* C22: speak() is called at most once per exchange, and only when the
\* sequence has ended and the pair is committed, with the whole committed
\* reply; whatever it returns or raises, the history keeps the pair and the
\* loop is back at its input.
C22_SpeechAfterCommit ==
    [][/\ chat'.speaks <= 1
       /\ Speaks =>
             /\ Current.pc = "done"
             /\ history[Len(history)] = Turn("assistant", Str(chat'.said))
             /\ history[Len(history) - 1] = Turn("user", Str(Current.prompt))
             /\ chat'.said = Concatenation(Current.delivered)
             /\ history' = history
             /\ chat'.pc = "input"
             /\ chat'.exc = "none"
       /\ (chat.pc = "speak" /\ chat'.pc # "speak") =>
             history' = history /\ chat'.pc = "input"]_vars

\* speak() raised after the first exchange; the pair is kept and the loop
\* is at its input again.
C22_Witness ==
    /\ chat.speaks = 1 /\ chat.spoke = "raise"
    /\ chat.said = Hel \o Lo
    /\ chat.pc = "input"
    /\ history = <<Turn("user", Str(chat.user)), Turn("assistant", Str(Hel \o Lo))>>

\* C23: a failure of the renderer on a fragment does not stop the other
\* consumers: it never makes the chat loop leave main, and the exchange is
\* never abandoned with fragments undelivered and nothing committed.
C23_RendererFailureIsolated ==
    chat.gen # 0 =>
        /\ ~(chat.pc = "crashed" /\ chat.exc = "PrintError")
        /\ Current.pc # "closed"

\* C24: no text is put on the queue at a moment when capture is disabled.
C24_NoPutWhileDisabled == ~chat.late

\* C25: ask_stream alone builds and sends nothing and changes nothing else;
\* a sequence not yet pulled has no request, no response and no connection;
\* the first pull builds the request from the history of that moment, so a
\* sequence first pulled after another one committed carries that pair.
C25_LazyRequest ==
    [][/\ Len(gens') = Len(gens) + 1 =>
             /\ SubSeq(gens', 1, Len(gens)) = gens
             /\ history' = history /\ asked' = asked /\ systemPrompt' = systemPrompt
       /\ \A g \in 1..Len(gens') :
             gens'[g].pc = "created" =>
                 /\ gens'[g].request = <<>>
                 /\ gens'[g].resp = NoResponse
                 /\ gens'[g].conn = "none"
                 /\ gens'[g].delivered = <<>>
       /\ \A g \in 1..Len(gens) :
             FirstPull(g) =>
                 /\ gens'[g].request = ExpectedRequest(history, gens[g].prompt)
                 /\ \A h \in 1..Len(gens) :
                       (gens[h].pc = "done" /\ history # <<>>
                          /\ history[Len(history)] =
                                Turn("assistant", Str(Concatenation(gens[h].delivered))))
                       => \E i \in 1..(Len(gens'[g].request) - 2) :
                             /\ gens'[g].request[i] = Turn("user", Str(gens[h].prompt))
                             /\ gens'[g].request[i + 1] = history[Len(history)]]_vars

\* Two sequences were created before any pull; the first was consumed and
\* committed, and the request of the second, built at its first pull,
\* carries that pair.
C25_Witness ==
    /\ Len(gens) = 2 /\ asked.n = 0 /\ ~reentered
    /\ gens[1].pc = "done" /\ gens[1].delivered = <<Str(Hel), Str(Lo)>>
    /\ gens[2].pc = "done"
    /\ systemPrompt # <<>>
    /\ gens[2].request = <<Turn("system", Str(systemPrompt)),
                           Turn("user", Str(gens[1].prompt)),
                           Turn("assistant", Str(Hel \o Lo)),
                           Turn("user", Str(gens[2].prompt))>>

\* The commands of C26, on the utterance trimmed and in lower case.
IsExit(u) ==
    LET c == lower(strip(u))
    IN  \/ c = <<"/", "b", "y", "e">>
        \/ \E w \in {<<"g", "o", "o", "d", "b", "y", "e">>, <<"e", "x", "i", "t">>, <<"q", "u", "i", "t">>} : contains(c, w)
IsVoiceCommand(u) ==
    LET c == lower(strip(u))
    IN  startswith(c, <<"/", "v", "o", "i", "c", "e">>) \/ contains(c, <<"v", "o", "i", "c", "e", " ", "m", "e", "n", "u">>) \/ c = <<"v", "o", "i", "c", "e">>
IsMicrophoneCommand(u) ==
    LET c == lower(strip(u))
    IN  \/ startswith(c, <<"/", "m", "i", "c", "s">>) \/ contains(c, <<"m", "i", "c", "r", "o", "p", "h", "o", "n", "e", "s">>)
        \/ startswith(c, <<"/", "m", "i", "c", "s", "e", "t">>) \/ contains(c, <<"s", "e", "t", " ", "m", "i", "c", "r", "o", "p", "h", "o", "n", "e">>)
        \/ startswith(c, <<"m", "i", "c", "r", "o", "p", "h", "o", "n", "e", " ">>)

\* The chat loop acts on an utterance in this step.
Hears == chat.pc = "input" /\ chat' # chat

\* C26: an exit utterance ends the loop, a voice or microphone command is
\* handled and the loop stays at its input, in both cases with no sequence
\* created, no request and the history unchanged; every other utterance,
\* and no command, is sent with ask_stream.
C26_CommandDispatch ==
    [][Hears =>
          LET u == chat'.user
          IN  /\ IsExit(u) =>
                    /\ chat'.pc = "ended" /\ chat'.last = "exit"
                    /\ gens' = gens /\ history' = history
              /\ (~IsExit(u) /\ (IsVoiceCommand(u) \/ IsMicrophoneCommand(u))) =>
                    /\ chat'.pc = "input" /\ chat'.last \in {"voice", "mics", "micset"}
                    /\ gens' = gens /\ history' = history
              /\ (~IsExit(u) /\ ~IsVoiceCommand(u) /\ ~IsMicrophoneCommand(u)) =>
                    /\ chat'.pc = "streaming" /\ chat'.last = "ask"
                    /\ Len(gens') = Len(gens) + 1
                    /\ gens'[Len(gens')].prompt = u
                    /\ gens'[Len(gens')].pc = "created"
                    /\ history' = history]_vars

\* After one exchange, an utterance that contains quit ended the loop.
C26_Witness ==
    /\ chat.pc = "ended" /\ chat.user = <<"w", "h", "y", " ", "q", "u", "i", "t">>
    /\ Len(gens) = 1 /\ gens[1].pc = "done"
    /\ Len(history) = 2

\* An utterance of the form "/micset <n>", n a number.
IsMicset(u) ==
    /\ startswith(lower(strip(u)), <<"/", "m", "i", "c", "s", "e", "t", " ">>)
    /\ intOf(secondWord(u)) # -1

\* C27: the last utterance acted on, when of the form "/micset <n>", was
\* handled by the microphone-set branch and the microphone index is n.
C27_MicsetSetsIndex ==
    IsMicset(chat.user) =>
        /\ chat.last = "micset"
        /\ chat.mic = intOf(secondWord(chat.user))
====
